---- MODULE Spec2Model ----
(***************************************************************************)
(* Model of the virtual BACnet devices of src/bacnet-test-devices: the     *)
(* four entry scripts (virtual_vav.py, virtual_ahu.py,                     *)
(* virtual_all_devices.py, simple_device.py), their device creation, the   *)
(* simulate_values coroutine and the shutdown path of main.                *)
(*                                                                         *)
(* Units.  Analog present values are integers in hundredths (72.0 is       *)
(* 7200).  A raw draw of the random module is an integer u in hundredths   *)
(* of [0,1); uniform(a,b) is a + (b-a)*u, random() is u.                   *)
(*                                                                         *)
(* Scheduling.  Everything runs on one asyncio event loop: a coroutine     *)
(* runs until it reaches an await, so main, the simulation task and the    *)
(* protocol adapter's callbacks interleave only where the running          *)
(* coroutine is suspended.  The loop body of simulate_values is modelled   *)
(* one role at a time so that this is a property of the await points and   *)
(* not of the grain of the model.                                          *)
(***************************************************************************)
EXTENDS Integers, Sequences, FiniteSets, TLC

VARIABLES
    prog,       \* the entry script that runs: "vav", "ahu", "multi", "simple"
    devices,    \* self.devices: <<[instance, type, objects]>> (simple: its one objects dict)
    appSet,     \* MultiDeviceApplication: self.app is not None
    calls,      \* create calls made by main so far
    running,    \* self.running
    mainpc,     \* main: "create", "wait" (await Event().wait()), "await_task", "done"
                \* (main is over), "exited" (asyncio.run has returned)
    simpc,      \* simulation task: "none", "sleep", "run", "cancelled", "failed", "finished"
    dev,        \* simulate_values: index of `device` in the for loop (0 outside the body)
    step,       \* simulate_values: index of the role being evaluated for `device`
    loc,        \* simulate_values locals: current_return, new_return, new_speed, and
                \* current (current_damper, current_speed) once it is read
    cancelReq,  \* simulation_task.cancel() was called
    sigint,     \* the interrupt signal: "none", or when it arrived: "during" a pass of
                \* the loop body, "between" passes; "again" once it arrived twice
    ticks,      \* completed passes of the loop body
    log,        \* the first raw draws of the random stream, in order: at most MaxLog,
                \* recorded until the first tick is over and dropped when the second starts
    done,       \* per device: roles evaluated by the pass in progress or last completed
    fanFrom,    \* per device: {the return_temp value the present fan_speed was computed from}
    obs,        \* what the adapter's read of an AHU saw since the task last resumed:
                \* "none", "initial", "consistent", "torn"
    keep,       \* whether log keeps the whole random stream of the run
    writes,     \* writes of present values made by the protocol adapter so far
    cell        \* an update rule applied on its own: rule ("walk", "track", "none"), its
                \* arguments, the value it started from, the current one, ticks applied

vars == <<prog, devices, appSet, calls, running, mainpc, simpc, dev, step, loc,
          cancelReq, sigint, ticks, log, done, fanFrom, obs, keep, writes, cell>>

----------------------------------------------------------------------------
\* Bounds of the model.

\* create calls main makes at most
MaxDevices == 2
\* ticks explored: a run of n devices makes at most MaxWork \div n ticks
MaxWork == 6
\* raw draws recorded in log
MaxLog == 3
\* ticks explored when log keeps the whole stream, counted as MaxWork is
MaxReplay == 3
\* writes the protocol adapter makes at most
MaxWrites == 1
\* consecutive ticks of an update rule applied on its own
MaxApplied == 3

\* instance numbers passed to create
Instances == {101, 102}
\* DEVICE_TYPE / device_type values
Types == {"VAV", "AHU", "FCU"}
\* raw draws of the random stream, hundredths of [0,1)
Raw == {0, 99}
\* raw draws behind random.randint(5, 10): the sleep's length changes no state
SleepRaw == {50}
\* present values a client writes through the protocol adapter: 20.0 and 120.0
AdapterValues == {2000, 12000}
\* the roles whose objects are commandable: analogOutput and analogValue
Writable == {"damper", "fan_speed", "setpoint"}

----------------------------------------------------------------------------
\* Pure helpers of the update code.

Min(a, b) == IF b < a THEN b ELSE a
Max(a, b) == IF b > a THEN b ELSE a

\* x * 0.1, rounded toward zero
Tenth(x) == IF x >= 0 THEN x \div 10 ELSE -((-x) \div 10)

\* random.uniform(a, b) on raw draw u
Uniform(a, b, u) == a + ((b - a) * u) \div 100

ClampNoUpper(v, lo, hi) == Max(lo, v)

ClampInverted(v, lo, hi) == Min(lo, Max(hi, v))

\* max(lo, min(hi, v))
Clamp(v, lo, hi) == Max(lo, Min(hi, v))

\* new = max(lo, min(hi, current + random.uniform(-range, range))) on raw draw u
Walk(current, range, lo, hi, u) == Clamp(current + Uniform(-range, range, u), lo, hi)

\* the step range and the bounds simulate_values gives the walk of each role
WalkOf(role) ==
    CASE role = "temp"        -> [range |-> 50,  lo |-> 6500, hi |-> 8000]
      [] role = "damper"      -> [range |-> 500, lo |-> 0,    hi |-> 10000]
      [] role = "supply_temp" -> [range |-> 100, lo |-> 5000, hi |-> 6000]
      [] role = "return_temp" -> [range |-> 50,  lo |-> 6800, hi |-> 7600]

\* the walk of a role, one step from current
StepOf(role, current, u) ==
    Walk(current, WalkOf(role).range, WalkOf(role).lo, WalkOf(role).hi, u)

\* target_speed = 50.0 + (driver - 72.0) * 5.0
TargetSpeed(driver) == 5000 + (driver - 7200) * 5

NextSpeedFullGain(current, driver) ==
    Clamp(current + Tenth(TargetSpeed(driver) - current) * 11, 3000, 10000)

\* new_speed = max(30.0, min(100.0, current + (target - current) * 0.1))
NextSpeed(current, driver) ==
    Clamp(current + Tenth(TargetSpeed(driver) - current), 3000, 10000)

FanStatusBelow(new_speed) == IF new_speed < 2000 THEN "active" ELSE "inactive"

\* "active" if new_speed > 20.0 else "inactive"
FanStatusOf(new_speed) == IF new_speed > 2000 THEN "active" ELSE "inactive"

\* "active" if occupancy.presentValue == "inactive" else "inactive"
ToggleStuck(v) == "inactive"

Toggle(v) == IF v = "inactive" THEN "active" ELSE "inactive"

----------------------------------------------------------------------------
\* Device construction.

VavObjectsFrom72(inst) ==
    [temp      |-> 7200,
     damper    |-> 4500,
     occupancy |-> IF prog = "simple" THEN "active"
                   ELSE IF inst % 2 = 0 THEN "inactive" ELSE "active",
     setpoint  |-> 7200]

VavObjects(inst) ==
    [temp      |-> IF prog = "simple" THEN 7300 ELSE 7200 + 100 * (inst % 5),
     damper    |-> 4500,
     occupancy |-> IF prog = "simple" THEN "active"
                   ELSE IF inst % 2 = 0 THEN "inactive" ELSE "active",
     setpoint  |-> 7200]

AhuObjects ==
    IF prog = "simple"
    THEN [supply_temp |-> 5500, return_temp |-> 7200, fan_speed |-> 7500]
    ELSE [supply_temp |-> 5500, return_temp |-> 7200, fan_status |-> "active",
          fan_speed |-> 7500]

NoObjects == [r \in {} |-> 0]

ObjectsFor(type, inst) ==
    CASE type = "VAV" -> VavObjects(inst)
      [] type = "AHU" -> AhuObjects
      [] OTHER -> NoObjects

Device(inst, type) == [instance |-> inst, type |-> type, objects |-> ObjectsFor(type, inst)]

StepsOfDamperFirst(type) ==
    CASE type = "VAV" -> <<"damper", "temp", "occupancy">>
      [] type = "AHU" -> IF prog = "simple"
                         THEN <<"supply_temp", "return_temp", "fan_speed">>
                         ELSE <<"supply_temp", "return_temp", "fan_speed", "fan_status">>
      [] OTHER -> <<>>

\* objectIdentifier of the object created for each role
Identifiers(type) ==
    CASE type = "VAV" -> [temp      |-> <<"analogInput", 1>>,
                          damper    |-> <<"analogOutput", 1>>,
                          occupancy |-> <<"binaryInput", 1>>,
                          setpoint  |-> <<"analogValue", 1>>]
      [] type = "AHU" -> IF prog = "simple"
                         THEN [supply_temp |-> <<"analogInput", 1>>,
                               return_temp |-> <<"analogInput", 2>>,
                               fan_speed   |-> <<"analogOutput", 1>>]
                         ELSE [supply_temp |-> <<"analogInput", 1>>,
                               return_temp |-> <<"analogInput", 2>>,
                               fan_status  |-> <<"binaryValue", 1>>,
                               fan_speed   |-> <<"analogOutput", 1>>]
      [] OTHER -> NoObjects

\* the roles simulate_values evaluates for a device, in program order
StepsOf(type) ==
    CASE type = "VAV" -> <<"temp", "damper", "occupancy">>
      [] type = "AHU" -> IF prog = "simple"
                         THEN <<"supply_temp", "return_temp", "fan_speed">>
                         ELSE <<"supply_temp", "return_temp", "fan_speed", "fan_status">>
      [] OTHER -> <<>>

RolesOf(type) == {StepsOf(type)[i] : i \in 1..Len(StepsOf(type))}

\* scripts whose loop draws random.randint(5, 10) for the sleep
RandomSleep == {"vav", "simple"}

----------------------------------------------------------------------------
\* The event loop.

SuspendedBeforeFanSpeed ==
    \/ simpc = "sleep"
    \/ /\ simpc = "run"
       /\ StepsOf(devices[dev].type)[step] = "fan_speed"

SuspendedAfterRead ==
    \/ simpc = "sleep"
    \/ simpc = "run" /\ loc.read

\* the simulation task is suspended at an await: its only one is asyncio.sleep
Suspended == simpc = "sleep"

\* no coroutine is running, so the loop can run a callback or resume main
LoopFree == simpc # "run" \/ Suspended

\* a cancellation requested by main is delivered where the task is suspended
CancelPending == cancelReq /\ Suspended

TaskSettledUnawaited == TRUE

\* `await simulation_task` returns (or raises) once the task has ended
TaskSettled == simpc \in {"cancelled", "failed", "finished"}

\* where the simulation stands: not started, started, asked to end
\* (simulation_task.cancel() was called), ended
Lifecycle ==
    IF simpc = "none" THEN "Idle"
    ELSE IF TaskSettled THEN "Stopped"
    ELSE IF cancelReq THEN "Stopping"
    ELSE "Running"

\* the tick bound of the exploration
TickAllowed == (ticks + 1) * Len(devices) <= IF keep THEN MaxReplay ELSE MaxWork

----------------------------------------------------------------------------
\* Initial state: the script has been chosen, main has created nothing yet.

NoLocals == [current_return |-> 0, new_return |-> 0, new_speed |-> 0,
             read |-> FALSE, current |-> 0]

\* no update rule is applied on its own
NoCell == [rule |-> "none", start |-> 0, current |-> 0, driver |-> 0,
           range |-> 0, lo |-> 0, hi |-> 0, applied |-> 0]

\* the program at its start
Started ==
    /\ prog \in {"vav", "ahu", "multi", "simple"}
    /\ devices = <<>>
    /\ appSet = FALSE
    /\ calls = 0
    /\ running = TRUE
    /\ mainpc = "create"
    /\ simpc = "none"
    /\ dev = 0
    /\ step = 0
    /\ loc = NoLocals
    /\ cancelReq = FALSE
    /\ sigint = "none"
    /\ ticks = 0
    /\ log = <<>>
    /\ done = <<>>
    /\ fanFrom = <<>>
    /\ obs = "none"
    /\ writes = 0

Init ==
    /\ Started
    /\ keep = FALSE
    /\ cell = NoCell

----------------------------------------------------------------------------
\* Device creation.

\* self.devices.append({...}) with the ghost columns kept in step
Register(d) ==
    /\ devices' = Append(devices, d)
    /\ done' = Append(done, {})
    /\ fanFrom' = Append(fanFrom, {})

\* VirtualVAVApplication.create_vav_device(device_instance, ...)
create_vav_device(inst) ==
    /\ prog = "vav"
    /\ mainpc = "create"
    /\ calls < MaxDevices
    /\ calls' = calls + 1
    /\ Register(Device(inst, "VAV"))
    /\ UNCHANGED <<keep, writes, cell, prog, appSet, running, mainpc, simpc, dev, step, loc, cancelReq,
                   sigint, ticks, log, obs>>

\* VirtualAHUApplication.create_ahu_device(device_instance, ...)
create_ahu_device(inst) ==
    /\ prog = "ahu"
    /\ mainpc = "create"
    /\ calls < MaxDevices
    /\ calls' = calls + 1
    /\ Register(Device(inst, "AHU"))
    /\ UNCHANGED <<keep, writes, cell, prog, appSet, running, mainpc, simpc, dev, step, loc, cancelReq,
                   sigint, ticks, log, obs>>

create_device_every_call(inst, type) ==
    /\ prog = "multi"
    /\ mainpc = "create"
    /\ calls < MaxDevices
    /\ calls' = calls + 1
    /\ appSet' = TRUE
    /\ Register(Device(inst, type))
    /\ UNCHANGED <<keep, writes, cell, prog, running, mainpc, simpc, dev, step, loc, cancelReq,
                   sigint, ticks, log, obs>>

\* MultiDeviceApplication.create_device(device_instance, device_name, device_type)
create_device(inst, type) ==
    /\ prog = "multi"
    /\ mainpc = "create"
    /\ calls < MaxDevices
    /\ calls' = calls + 1
    /\ IF ~appSet
       THEN /\ appSet' = TRUE
            /\ Register(Device(inst, type))
       ELSE \* one device per application: return None
            UNCHANGED <<appSet, devices, done, fanFrom>>
    /\ UNCHANGED <<keep, writes, cell, prog, running, mainpc, simpc, dev, step, loc, cancelReq,
                   sigint, ticks, log, obs>>

\* simple_device.main: the one device of DEVICE_INSTANCE and DEVICE_TYPE
simple_create(inst, type) ==
    /\ prog = "simple"
    /\ mainpc = "create"
    /\ calls = 0
    /\ calls' = 1
    /\ Register(Device(inst, type))
    /\ UNCHANGED <<keep, writes, cell, prog, appSet, running, mainpc, simpc, dev, step, loc, cancelReq,
                   sigint, ticks, log, obs>>

----------------------------------------------------------------------------
\* The random stream.

Record(l, u) == IF keep \/ (ticks = 0 /\ Len(l) < MaxLog) THEN Append(l, u) ELSE l

\* sleep_duration = random.randint(5, 10), drawn before every sleep
SleepDraw(l, u) == IF prog \in RandomSleep THEN Record(l, u) ELSE l

----------------------------------------------------------------------------
\* main: asyncio.create_task(simulate_values()) and the wait. The task runs to
\* its first await asyncio.sleep as soon as main suspends.

create_task ==
    /\ mainpc = "create"
    /\ calls >= 1
    /\ mainpc' = "wait"
    /\ simpc' = "sleep"
    /\ \E us \in SleepRaw : log' = SleepDraw(log, us)
    /\ UNCHANGED <<keep, writes, cell, prog, devices, appSet, calls, running, dev, step, loc, cancelReq,
                   sigint, ticks, done, fanFrom, obs>>

----------------------------------------------------------------------------
\* simulate_values: the position in the loop body.

CurType == devices[dev].type
CurRole == StepsOf(CurType)[step]
ObjectsOfFirst == devices[1].objects

Objects == devices[dev].objects

RECURSIVE FirstDev(_)
\* the first device at or after d for which the loop body does anything (0: none)
FirstDev(d) ==
    IF d > Len(devices) THEN 0
    ELSE IF StepsOf(devices[d].type) # <<>> THEN d
    ELSE FirstDev(d + 1)

LastStep == step = Len(StepsOf(CurType))

\* the body is over after this role: back to `while self.running` and the sleep
TickEnds == LastStep /\ FirstDev(dev + 1) = 0

\* the loop condition: simple_device loops `while True`
LoopsOn == prog = "simple" \/ running

\* what follows the evaluation of the current role; nl are the locals it leaves
Advance(nl) ==
    /\ done' = [done EXCEPT ![dev] = @ \cup {CurRole}]
    /\ IF ~LastStep
       THEN /\ step' = step + 1
            /\ loc' = nl
            /\ UNCHANGED <<dev, simpc, ticks>>
       ELSE IF FirstDev(dev + 1) # 0
       THEN /\ dev' = FirstDev(dev + 1)
            /\ step' = 1
            /\ loc' = NoLocals
            /\ UNCHANGED <<simpc, ticks>>
       ELSE /\ dev' = 0
            /\ step' = 0
            /\ loc' = NoLocals
            /\ ticks' = ticks + 1
            /\ simpc' = IF LoopsOn THEN "sleep" ELSE "finished"

\* the stream after the role's draw u and, when the body ends, the sleep's draw us
Drawn(l, us) == IF TickEnds /\ LoopsOn THEN SleepDraw(l, us) ELSE l

Evaluating(role) ==
    /\ simpc = "run"
    /\ ~CancelPending
    /\ CurRole = role

sim_wake_after_read ==
    /\ simpc = "sleep"
    /\ ~cancelReq
    /\ TickAllowed
    /\ obs = "none"
    /\ IF FirstDev(1) = 0
       THEN /\ ticks' = ticks + 1
            /\ \E us \in SleepRaw : log' = SleepDraw(log, us)
            /\ UNCHANGED <<simpc, dev, step, done>>
       ELSE /\ simpc' = "run"
            /\ dev' = FirstDev(1)
            /\ step' = 1
            /\ done' = [i \in DOMAIN done |-> {}]
            /\ log' = IF keep \/ ticks = 0 THEN log ELSE <<>>
            /\ UNCHANGED ticks
    /\ obs' = "none"
    /\ UNCHANGED <<keep, writes, cell, prog, devices, appSet, calls, running, mainpc, loc,
                   cancelReq, sigint, fanFrom>>

\* asyncio.sleep is over: the body starts with the first device
sim_wake ==
    /\ simpc = "sleep"
    /\ ~cancelReq
    /\ TickAllowed
    /\ IF FirstDev(1) = 0
       THEN /\ ticks' = ticks + 1
            /\ \E us \in SleepRaw : log' = SleepDraw(log, us)
            /\ UNCHANGED <<simpc, dev, step, done>>
       ELSE /\ simpc' = "run"
            /\ dev' = FirstDev(1)
            /\ step' = 1
            /\ done' = [i \in DOMAIN done |-> {}]
            /\ log' = IF keep \/ ticks = 0 THEN log ELSE <<>>
            /\ UNCHANGED ticks
    /\ obs' = "none"
    /\ UNCHANGED <<keep, writes, cell, prog, devices, appSet, calls, running, mainpc, loc, cancelReq,
                   sigint, fanFrom>>

\* temp: new_temp = max(65.0, min(80.0, current_temp + random.uniform(-0.5, 0.5)))
sim_temp ==
    /\ Evaluating("temp")
    /\ \E u \in Raw, us \in SleepRaw :
         /\ devices' = [devices EXCEPT ![dev].objects.temp = StepOf("temp", @, u)]
         /\ log' = Drawn(Record(log, u), us)
    /\ Advance(loc)
    /\ UNCHANGED <<keep, writes, cell, prog, appSet, calls, running, mainpc, cancelReq, sigint, fanFrom, obs>>

\* the points the protocol adapter may write, read into a local before they
\* are written: current_damper, current_speed = float(x.presentValue)
ReadFirst == {"damper", "fan_speed"}

\* current = float(x.presentValue)
sim_read ==
    /\ simpc = "run"
    /\ ~CancelPending
    /\ CurRole \in ReadFirst
    /\ ~loc.read
    /\ loc' = [loc EXCEPT !.read = TRUE, !.current = Objects[CurRole]]
    /\ UNCHANGED <<keep, writes, cell, prog, devices, appSet, calls, running, mainpc, simpc,
                   dev, step, cancelReq, sigint, ticks, log, done, fanFrom, obs>>

\* the locals once the value computed from current is written
Written(l) == [l EXCEPT !.read = FALSE, !.current = 0]

sim_damper_on_setpoint ==
    /\ Evaluating("damper")
    /\ loc.read
    /\ \E u \in Raw, us \in SleepRaw :
         /\ devices' = [devices EXCEPT ![dev].objects.setpoint =
                            StepOf("damper", loc.current, u)]
         /\ log' = Drawn(Record(log, u), us)
    /\ Advance(Written(loc))
    /\ UNCHANGED <<keep, writes, cell, prog, appSet, calls, running, mainpc, cancelReq, sigint, fanFrom, obs>>

\* damper: new_damper = max(0.0, min(100.0, current_damper + random.uniform(-5.0, 5.0)))
sim_damper ==
    /\ Evaluating("damper")
    /\ loc.read
    /\ \E u \in Raw, us \in SleepRaw :
         /\ devices' = [devices EXCEPT ![dev].objects.damper =
                            StepOf("damper", loc.current, u)]
         /\ log' = Drawn(Record(log, u), us)
    /\ Advance(Written(loc))
    /\ UNCHANGED <<keep, writes, cell, prog, appSet, calls, running, mainpc, cancelReq, sigint, fanFrom, obs>>

\* occupancy: if random.random() < 0.1: toggle
sim_occupancy ==
    /\ Evaluating("occupancy")
    /\ \E u \in Raw, us \in SleepRaw :
         /\ devices' = IF u < 10
                       THEN [devices EXCEPT ![dev].objects.occupancy = Toggle(@)]
                       ELSE devices
         /\ log' = Drawn(Record(log, u), us)
    /\ Advance(loc)
    /\ UNCHANGED <<keep, writes, cell, prog, appSet, calls, running, mainpc, cancelReq, sigint, fanFrom, obs>>

\* supply_temp: new_supply = max(50.0, min(60.0, current_supply + random.uniform(-1.0, 1.0)))
sim_supply_temp ==
    /\ Evaluating("supply_temp")
    /\ \E u \in Raw, us \in SleepRaw :
         /\ devices' = [devices EXCEPT ![dev].objects.supply_temp =
                            StepOf("supply_temp", @, u)]
         /\ log' = Drawn(Record(log, u), us)
    /\ Advance(loc)
    /\ UNCHANGED <<keep, writes, cell, prog, appSet, calls, running, mainpc, cancelReq, sigint, fanFrom, obs>>

\* return_temp: new_return = max(68.0, min(76.0, current_return + random.uniform(-0.5, 0.5)))
sim_return_temp ==
    /\ Evaluating("return_temp")
    /\ \E u \in Raw, us \in SleepRaw :
         LET current_return == Objects.return_temp
             new_return == StepOf("return_temp", current_return, u)
         IN  /\ devices' = [devices EXCEPT ![dev].objects.return_temp = new_return]
             /\ log' = Drawn(Record(log, u), us)
             /\ Advance([loc EXCEPT !.current_return = current_return,
                                    !.new_return = new_return])
    /\ UNCHANGED <<keep, writes, cell, prog, appSet, calls, running, mainpc, cancelReq, sigint, fanFrom, obs>>

StaleDriver == loc.current_return

\* the return temperature the fan target is computed from: the local new_return,
\* and in simple_device float(return_temp.presentValue)
FanDriver == IF prog = "simple" THEN Objects.return_temp ELSE loc.new_return

\* fan_speed: tracks target_speed by a tenth of the distance
sim_fan_speed ==
    /\ Evaluating("fan_speed")
    /\ loc.read
    /\ LET new_speed == NextSpeed(loc.current, FanDriver)
       IN  /\ devices' = [devices EXCEPT ![dev].objects.fan_speed = new_speed]
           /\ fanFrom' = [fanFrom EXCEPT ![dev] = {FanDriver}]
           /\ Advance([Written(loc) EXCEPT !.new_speed = new_speed])
    /\ \E us \in SleepRaw : log' = Drawn(log, us)
    /\ UNCHANGED <<keep, writes, cell, prog, appSet, calls, running, mainpc, cancelReq, sigint, obs>>

\* fan_status.presentValue = "active" if new_speed > 20.0 else "inactive"
sim_fan_status ==
    /\ Evaluating("fan_status")
    /\ devices' = [devices EXCEPT ![dev].objects.fan_status = FanStatusOf(loc.new_speed)]
    /\ \E us \in SleepRaw : log' = Drawn(log, us)
    /\ Advance(loc)
    /\ UNCHANGED <<keep, writes, cell, prog, appSet, calls, running, mainpc, cancelReq, sigint, fanFrom, obs>>

\* float(x.presentValue) raises: nothing in simulate_values catches it
sim_raise ==
    /\ simpc = "run"
    /\ ~CancelPending
    /\ CurRole \in {"temp", "damper", "supply_temp", "return_temp", "fan_speed"}
    /\ simpc' = "failed"
    /\ UNCHANGED <<keep, writes, cell, prog, devices, appSet, calls, running, mainpc, dev, step, loc,
                   cancelReq, sigint, ticks, log, done, fanFrom, obs>>

sim_cancel_swallowed ==
    /\ simpc \in {"sleep", "run"}
    /\ CancelPending
    /\ simpc' = "sleep"
    /\ cancelReq' = FALSE
    /\ UNCHANGED <<keep, writes, cell, prog, devices, appSet, calls, running, mainpc, dev, step,
                   loc, sigint, ticks, log, done, fanFrom, obs>>

\* CancelledError is thrown into the task where it is suspended
sim_cancelled ==
    /\ simpc \in {"sleep", "run"}
    /\ CancelPending
    /\ simpc' = "cancelled"
    /\ UNCHANGED <<keep, writes, cell, prog, devices, appSet, calls, running, mainpc, dev, step, loc,
                   cancelReq, sigint, ticks, log, done, fanFrom, obs>>

----------------------------------------------------------------------------
\* Shutdown.  asyncio.run handles the interrupt signal: its handler cancels the
\* main task, so the signal reaches main as a CancelledError raised at main's
\* await the next time the loop is free.

\* the interrupt signal arrives, at any moment of the simulation task
interrupt ==
    /\ mainpc = "wait"
    /\ sigint = "none"
    /\ sigint' = IF simpc = "run" THEN "during" ELSE "between"
    /\ UNCHANGED <<keep, writes, cell, prog, devices, appSet, calls, running, mainpc, simpc, dev, step, loc,
                   cancelReq, ticks, log, done, fanFrom, obs>>

\* the exception asyncio.run raises in main for the signal
Delivered == "CancelledError"

\* the exception main's try catches around its wait
Caught == IF prog = "simple" THEN "CancelledError" ELSE "KeyboardInterrupt"

\* main is resumed with the exception: its except clause runs when it matches
\* (self.running = False, simulation_task.cancel(), then await simulation_task),
\* and main ends with the exception when it does not
main_interrupted ==
    /\ mainpc = "wait"
    /\ sigint # "none"
    /\ LoopFree
    /\ IF Delivered = Caught
       THEN /\ running' = IF prog = "simple" THEN running ELSE FALSE
            /\ cancelReq' = TRUE
            /\ mainpc' = "await_task"
       ELSE /\ mainpc' = "done"
            /\ UNCHANGED <<running, cancelReq>>
    /\ UNCHANGED <<keep, writes, cell, prog, devices, appSet, calls, simpc, dev, step, loc,
                   sigint, ticks, log, done, fanFrom, obs>>

\* await simulation_task is over: main returns
main_return ==
    /\ mainpc = "await_task"
    /\ TaskSettled
    /\ mainpc' = "done"
    /\ UNCHANGED <<keep, writes, cell, prog, devices, appSet, calls, running, simpc, dev, step, loc,
                   cancelReq, sigint, ticks, log, done, fanFrom, obs>>

\* asyncio.run, after main: cancel the tasks that remain
run_cancel_all ==
    /\ mainpc = "done"
    /\ LoopFree
    /\ ~TaskSettled
    /\ ~cancelReq
    /\ cancelReq' = TRUE
    /\ UNCHANGED <<keep, writes, cell, prog, devices, appSet, calls, running, mainpc, simpc, dev, step, loc,
                   sigint, ticks, log, done, fanFrom, obs>>

\* asyncio.run returns once they have ended: the process exits
run_exit ==
    /\ mainpc = "done"
    /\ TaskSettled
    /\ mainpc' = "exited"
    /\ UNCHANGED <<keep, writes, cell, prog, devices, appSet, calls, running, simpc, dev, step, loc,
                   cancelReq, sigint, ticks, log, done, fanFrom, obs>>

\* a second interrupt signal, once the simulation was asked to end: asyncio.run
\* raises KeyboardInterrupt out of the loop, main is over if it was not, the
\* runner goes on to cancel what remains and the script catches the exception
\* around asyncio.run
interrupt_again ==
    /\ sigint \in {"during", "between"}
    /\ mainpc \in {"await_task", "done"}
    /\ Lifecycle \in {"Stopping", "Stopped"}
    /\ sigint' = "again"
    /\ mainpc' = "done"
    /\ UNCHANGED <<keep, writes, cell, prog, devices, appSet, calls, running, simpc, dev, step,
                   loc, cancelReq, ticks, log, done, fanFrom, obs>>

----------------------------------------------------------------------------
\* The protocol adapter reads an AHU's points in one callback of the loop.

get_value(d) ==
    /\ mainpc \in {"wait", "await_task", "done"}
    /\ LoopFree
    /\ devices[d].type = "AHU"
    /\ obs' = IF fanFrom[d] = {} THEN "initial"
              ELSE IF fanFrom[d] = {devices[d].objects.return_temp} THEN "consistent"
              ELSE "torn"
    /\ UNCHANGED <<keep, writes, cell, prog, devices, appSet, calls, running, mainpc, simpc, dev, step, loc,
                   cancelReq, sigint, ticks, log, done, fanFrom>>

\* The protocol adapter writes the present value of a commandable object, in one
\* callback of the loop.
set_value(d, role, v) ==
    /\ mainpc \in {"wait", "await_task", "done"}
    /\ LoopFree
    /\ writes < MaxWrites
    /\ role \in Writable \cap DOMAIN devices[d].objects
    /\ devices' = [devices EXCEPT ![d].objects[role] = v]
    /\ writes' = writes + 1
    /\ UNCHANGED <<keep, cell, prog, appSet, calls, running, mainpc, simpc, dev, step, loc,
                   cancelReq, sigint, ticks, log, done, fanFrom, obs>>

----------------------------------------------------------------------------
\* Specifications.

Next ==
    \/ \E inst \in Instances : create_vav_device(inst)
    \/ \E inst \in Instances : create_ahu_device(inst)
    \/ \E inst \in Instances, type \in Types : create_device(inst, type)
    \/ \E inst \in Instances, type \in Types : simple_create(inst, type)
    \/ create_task
    \/ sim_wake
    \/ sim_read
    \/ sim_temp
    \/ sim_damper
    \/ sim_occupancy
    \/ sim_supply_temp
    \/ sim_return_temp
    \/ sim_fan_speed
    \/ sim_fan_status
    \/ sim_cancelled
    \/ interrupt
    \/ main_interrupted
    \/ main_return
    \/ run_cancel_all
    \/ run_exit
    \/ \E d \in DOMAIN devices : get_value(d)

Spec == Init /\ [][Next]_vars

\* the same program when a read of a present value can raise
NextFault == Next \/ sim_raise

SpecFault == Init /\ [][NextFault]_vars

----------------------------------------------------------------------------
\* The update rules on their own: the walk of the analog points and the tracking
\* of fan_speed, applied tick after tick to one value.

\* the roles simulate_values walks
Walked == {"temp", "damper", "supply_temp", "return_temp"}

\* return temperatures within return_temp's bounds
Drivers == {r \in WalkOf("return_temp").lo .. WalkOf("return_temp").hi : r % 200 = 0}

\* fan speeds: within fan_speed's bounds, written by the adapter, next to the target
Speeds(driver) ==
    {c \in 3000..10000 : c % 250 = 0}
        \cup AdapterValues
        \cup {TargetSpeed(driver) + k : k \in -12..12}

\* values within the bounds of a walk
Within(w) == {c \in w.lo .. w.hi : c % 125 = 0} \cup {w.lo, w.lo + 1, w.hi - 1, w.hi}

\* a walk with the bounds of one of the roles, with its step range or with none,
\* from a value within the bounds; or the tracking of a constant return_temp
RuleCells ==
    UNION {{[rule |-> "walk", start |-> c, current |-> c, driver |-> 0,
             range |-> r, lo |-> WalkOf(role).lo, hi |-> WalkOf(role).hi, applied |-> 0] :
               r \in {0, WalkOf(role).range}, c \in Within(WalkOf(role))} :
           role \in Walked}
    \cup
    UNION {{[rule |-> "track", start |-> c, current |-> c, driver |-> d,
             range |-> 0, lo |-> 0, hi |-> 0, applied |-> 0] :
               c \in Speeds(d)} :
           d \in Drivers}

InitRules ==
    /\ Started
    /\ prog = "ahu"
    /\ keep = FALSE
    /\ cell \in RuleCells

\* one tick of the walk
walk ==
    /\ cell.rule = "walk"
    /\ cell.applied < MaxApplied
    /\ \E u \in Raw :
         cell' = [cell EXCEPT !.current = Walk(@, cell.range, cell.lo, cell.hi, u),
                              !.applied = @ + 1]
    /\ UNCHANGED <<keep, writes, prog, devices, appSet, calls, running, mainpc, simpc, dev,
                   step, loc, cancelReq, sigint, ticks, log, done, fanFrom, obs>>

\* one tick of the tracking, the return temperature held
track ==
    /\ cell.rule = "track"
    /\ cell.applied < MaxApplied
    /\ cell' = [cell EXCEPT !.current = NextSpeed(@, cell.driver),
                            !.applied = @ + 1]
    /\ UNCHANGED <<keep, writes, prog, devices, appSet, calls, running, mainpc, simpc, dev,
                   step, loc, cancelReq, sigint, ticks, log, done, fanFrom, obs>>

NextRules == walk \/ track

SpecRules == InitRules /\ [][NextRules]_vars

\* the same program when the interrupt signal can arrive a second time
NextAgain == Next \/ interrupt_again

SpecAgain == Init /\ [][NextAgain]_vars

\* the same program, observed with the whole random stream kept
InitReplay ==
    /\ Started
    /\ keep = TRUE
    /\ cell = NoCell

SpecReplay == InitReplay /\ [][Next]_vars

\* the same program when clients write through the protocol adapter
NextAdapter ==
    \/ Next
    \/ \E d \in DOMAIN devices, role \in Writable, v \in AdapterValues : set_value(d, role, v)

SpecAdapter == InitReplay /\ [][NextAdapter]_vars

\* the steps of the simulation task: the event loop runs a task that is ready,
\* and the sleep's timer expires
SimStep ==
    \/ sim_wake
    \/ sim_read
    \/ sim_temp
    \/ sim_damper
    \/ sim_occupancy
    \/ sim_supply_temp
    \/ sim_return_temp
    \/ sim_fan_speed
    \/ sim_fan_status
    \/ sim_cancelled

\* the program with adapter reads and writes (what is written does not matter
\* to the progress of the task: one value is written), the event loop being fair
\* to the simulation task
NextLive ==
    \/ Next
    \/ \E d \in DOMAIN devices, role \in Writable :
          set_value(d, role, CHOOSE v \in AdapterValues : \A w \in AdapterValues : w <= v)

SpecLive == InitReplay /\ [][NextLive]_vars /\ WF_vars(SimStep)

----------------------------------------------------------------------------
\* Claims.

AhuDevices == {d \in DOMAIN devices : devices[d].type = "AHU"}
VavDevices == {d \in DOMAIN devices : devices[d].type = "VAV"}

\* C1: in every reachable state, at creation and after any number of ticks,
\* every bounded analog point is within its bounds: VAV temp in [65,80] and
\* damper in [0,100]; AHU supply_temp in [50,60], return_temp in [68,76] and
\* fan_speed in [30,100].
C1_PointsWithinBounds ==
    /\ \A d \in VavDevices :
         /\ devices[d].objects.temp \in 6500..8000
         /\ devices[d].objects.damper \in 0..10000
    /\ \A d \in AhuDevices :
         /\ devices[d].objects.supply_temp \in 5000..6000
         /\ devices[d].objects.return_temp \in 6800..7600
         /\ devices[d].objects.fan_speed \in 3000..10000

\* a supply_temp that the clamp brought back to 60.0: no sum of draws gives it
C1_Witness ==
    \E d \in AhuDevices : devices[d].objects.supply_temp = 6000 /\ ticks >= 1

\* C2: no read of the adapter sees an AHU whose fan_speed was computed from a
\* return_temp other than the one the same read sees: a read never falls
\* between the return_temp write and the fan_speed write of a tick.
C2_ReadsSeeWholeTicks == obs # "torn"

\* a read that saw a fan_speed computed by a tick, and its return_temp
C2_Witness == obs = "consistent" /\ ticks >= 1

\* C3: whenever the simulation task has been cancelled, whatever the moment the
\* stop was requested, every device has either all of the roles of the last
\* tick evaluated or none of them.
C3_CancelLeavesWholeTicks ==
    simpc = "cancelled" =>
        \A d \in DOMAIN devices :
            done[d] = {} \/ done[d] = RolesOf(devices[d].type)

\* the signal arrived during a tick, and the task was cancelled after it
C3_Witness ==
    /\ simpc = "cancelled"
    /\ sigint = "during"
    /\ \E d \in DOMAIN devices : done[d] # {}

\* C4: the step that evaluates fan_speed finds return_temp already evaluated and
\* committed by the same tick, computes fan_speed from that committed value
\* (target = 50 + 5*(return_temp - 72)) and leaves return_temp alone; fan_status
\* is evaluated after it.
C4_FanSpeedUsesNewReturn ==
    [][(/\ simpc = "run"
        /\ CurRole = "fan_speed"
        /\ done'[dev] # done[dev])
       => /\ "return_temp" \in done[dev]
          /\ "fan_status" \notin done'[dev]
          /\ devices'[dev].objects.return_temp = Objects.return_temp
          /\ devices'[dev].objects.fan_speed =
                 NextSpeed(Objects.fan_speed, Objects.return_temp)]_vars

\* fan_speed has just been written by a tick that changed return_temp
C4_Witness ==
    /\ simpc = "run"
    /\ CurRole = "fan_status"
    /\ loc.new_return # loc.current_return
    /\ Objects.return_temp = loc.new_return
    /\ Objects.fan_speed = NextSpeed(7500, loc.new_return)

C6_InstancesDistinct ==
    \A i, j \in DOMAIN devices :
        i # j => devices[i].instance # devices[j].instance

\* C7: creation with a device_type other than VAV or AHU registers no device
\* and starts no simulation for it.
C7_OnlyVavAndAhuRegistered ==
    \A d \in DOMAIN devices : devices[d].type \in {"VAV", "AHU"}

\* C8: when main has returned after an interrupt, stop has completed: the
\* running flag is cleared where there is one and the simulation task has been
\* cancelled and awaited.
C8_StopCompleteWhenMainReturns ==
    mainpc \in {"done", "exited"} =>
        /\ simpc = "cancelled"
        /\ prog # "simple" => ~running

\* C9: a failure of one device's update is contained: the simulation task does
\* not end, and a tick that is over has evaluated every device.
C9_FailureContained ==
    /\ simpc # "failed"
    /\ simpc # "run" =>
           \A d \in DOMAIN devices :
               done[d] = {} \/ done[d] = RolesOf(devices[d].type)

\* the first device is the VAV of instance 101, and exactly one tick is over
OneTickOfVav101 ==
    /\ Len(devices) >= 1
    /\ devices[1].instance = 101
    /\ devices[1].type = "VAV"
    /\ ticks = 1
    /\ simpc # "run"

\* the draws of the stream that precede the first role's draw
SleepDraws == IF prog \in RandomSleep THEN 1 ELSE 0

\* C10 as stated: after exactly one tick temp is clamp(72.0 + d1, 65, 80) and
\* damper is clamp(45.0 + d2, 0, 100), d1 and d2 the first and second draws of
\* the stream taken as uniform(-0.5,0.5) and uniform(-5,5).
C10_OneTickFrom72 ==
    OneTickOfVav101 =>
        /\ devices[1].objects.temp =
               Clamp(7200 + Uniform(-50, 50, log[1]), 6500, 8000)
        /\ devices[1].objects.damper =
               Clamp(4500 + Uniform(-500, 500, log[2]), 0, 10000)

\* C10 amended: temp is clamp(73.0 + d1, 65, 80), 73.0 being the creation value
\* 72 + 101 mod 5, and damper is clamp(45.0 + d2, 0, 100), d1 and d2 the first
\* two draws of the stream that follow the draw of the sleep's length, where the
\* script draws one.
C10_OneTickFrom73 ==
    OneTickOfVav101 =>
        /\ devices[1].objects.temp =
               Clamp(7300 + Uniform(-50, 50, log[SleepDraws + 1]), 6500, 8000)
        /\ devices[1].objects.damper =
               Clamp(4500 + Uniform(-500, 500, log[SleepDraws + 2]), 0, 10000)

C10_Witness == OneTickOfVav101 /\ prog = "vav" /\ devices[1].objects.temp = 7349

\* the raw draws a tick takes from the stream for a device of this type
DrawsOf(type) ==
    CASE type = "VAV" -> 3
      [] type = "AHU" -> 2
      [] OTHER -> 0

RECURSIVE DrawsBefore(_)
\* the raw draws a tick takes for the devices that precede device d
DrawsBefore(d) ==
    IF d <= 1 THEN 0 ELSE DrawsBefore(d - 1) + DrawsOf(devices[d - 1].type)

\* the raw draws of one round of the loop: the sleep's and the tick's
RoundDraws == SleepDraws + DrawsBefore(Len(devices) + 1)

\* the place in the stream before the draws of tick t for device d
DrawsAt(d, t) == (t - 1) * RoundDraws + SleepDraws + DrawsBefore(d)

\* the points of a VAV after a tick that takes the draws that follow place k
ReplayVav(o, k) ==
    [o EXCEPT !.temp = Clamp(@ + Uniform(-50, 50, log[k + 1]), 6500, 8000),
              !.damper = Clamp(@ + Uniform(-500, 500, log[k + 2]), 0, 10000),
              !.occupancy = IF log[k + 3] < 10 THEN Toggle(@) ELSE @]

\* the points of an AHU after a tick that takes the draws that follow place k
ReplayAhu(o, k) ==
    LET ret == Clamp(o.return_temp + Uniform(-50, 50, log[k + 2]), 6800, 7600)
        speed == NextSpeed(o.fan_speed, ret)
        o3 == [o EXCEPT !.supply_temp = Clamp(@ + Uniform(-100, 100, log[k + 1]), 5000, 6000),
                        !.return_temp = ret,
                        !.fan_speed = speed]
    IN  IF "fan_status" \in DOMAIN o
        THEN [o3 EXCEPT !.fan_status = FanStatusOf(speed)]
        ELSE o3

RECURSIVE Replayed(_, _)
\* the points of device d after t ticks, as its creation parameters and the
\* stream alone give them
Replayed(d, t) ==
    IF t = 0 THEN ObjectsFor(devices[d].type, devices[d].instance)
    ELSE CASE devices[d].type = "VAV" -> ReplayVav(Replayed(d, t - 1), DrawsAt(d, t))
           [] devices[d].type = "AHU" -> ReplayAhu(Replayed(d, t - 1), DrawsAt(d, t))
           [] OTHER -> Replayed(d, t - 1)

\* C11: after each tick the value of every point is the one that the creation
\* parameters of the devices and the draws of the stream give, whatever the
\* moments of the interrupt, of the adapter's reads and of the task's steps:
\* two runs with the same devices and the same stream agree after every tick.
C11_ValuesFollowFromStream ==
    simpc # "run" =>
        \A d \in DOMAIN devices : devices[d].objects = Replayed(d, ticks)

\* two ticks of a script that draws the sleep's length from the same stream
C11_Witness ==
    /\ keep
    /\ prog = "vav"
    /\ ticks = 2
    /\ Len(log) >= 2 * RoundDraws
    /\ devices[1].objects.temp # ObjectsFor("VAV", devices[1].instance).temp

\* C12: until the first tick starts, every VAV holds temp = 72 + (instance mod 5),
\* damper = 45.0, occupancy = active when its instance is odd and inactive when
\* even, setpoint = 72.0, and every AHU holds supply_temp = 55.0,
\* return_temp = 72.0, fan_status = active, fan_speed = 75.0.
C12_CreationValues ==
    (ticks = 0 /\ simpc \in {"none", "sleep"}) =>
        /\ \A d \in VavDevices :
             devices[d].objects =
                 [temp      |-> 7200 + 100 * (devices[d].instance % 5),
                  damper    |-> 4500,
                  occupancy |-> IF devices[d].instance % 2 = 1 THEN "active" ELSE "inactive",
                  setpoint  |-> 7200]
        /\ \A d \in AhuDevices :
             devices[d].objects =
                 [supply_temp |-> 5500,
                  return_temp |-> 7200,
                  fan_status  |-> "active",
                  fan_speed   |-> 7500]

\* the points a device carries: role, kind and index of each of its objects
PointSet(d) ==
    {<<r, Identifiers(devices[d].type)[r]>> : r \in DOMAIN devices[d].objects}

\* C13: every VAV carries exactly AnalogInput 1 (temp), AnalogOutput 1 (damper),
\* BinaryInput 1 (occupancy), AnalogValue 1 (setpoint) and every AHU exactly
\* AnalogInput 1 (supply_temp), AnalogInput 2 (return_temp), BinaryValue 1
\* (fan_status), AnalogOutput 1 (fan_speed); no two points of a device share
\* kind and index.
C13_PointSetsOfTypes ==
    /\ \A d \in VavDevices :
         PointSet(d) = {<<"temp", <<"analogInput", 1>>>>,
                        <<"damper", <<"analogOutput", 1>>>>,
                        <<"occupancy", <<"binaryInput", 1>>>>,
                        <<"setpoint", <<"analogValue", 1>>>>}
    /\ \A d \in AhuDevices :
         PointSet(d) = {<<"supply_temp", <<"analogInput", 1>>>>,
                        <<"return_temp", <<"analogInput", 2>>>>,
                        <<"fan_status", <<"binaryValue", 1>>>>,
                        <<"fan_speed", <<"analogOutput", 1>>>>}
    /\ \A d \in DOMAIN devices : \A p, q \in PointSet(d) : p[2] = q[2] => p = q

\* C14: as long as the adapter has written nothing, the setpoint of every VAV is
\* its creation value 72.0, and no step other than a write of the adapter
\* changes a setpoint: a written setpoint is kept by all later ticks.
C14_TicksKeepSetpoint ==
    /\ [](writes = 0 => \A d \in VavDevices : devices[d].objects.setpoint = 7200)
    /\ [][writes' = writes =>
            \A d \in VavDevices :
                devices'[d].objects.setpoint = devices[d].objects.setpoint]_vars

\* a tick is evaluating a VAV whose setpoint the adapter wrote before it started
C14_Witness ==
    /\ simpc = "run"
    /\ writes >= 1
    /\ CurType = "VAV"
    /\ "damper" \in done[dev]
    /\ Objects.setpoint \in AdapterValues

\* C15: a write of the adapter never lands between a tick's read of a point and
\* the tick's write of that point, and a tick writes damper and fan_speed with
\* the value computed from the one the point holds at that moment, written by the
\* adapter or by the tick before: no written value is lost.
C15_WritesSerialized ==
    [][/\ writes' # writes => ~loc.read
       /\ (simpc = "run" /\ CurRole = "damper" /\ done'[dev] # done[dev]) =>
              \E u \in Raw :
                  devices'[dev].objects.damper =
                      Clamp(Objects.damper + Uniform(-500, 500, u), 0, 10000)
       /\ (simpc = "run" /\ CurRole = "fan_speed" /\ done'[dev] # done[dev]) =>
              devices'[dev].objects.fan_speed =
                  NextSpeed(Objects.fan_speed, Objects.return_temp)]_vars

\* a tick has written a damper computed from the 20.0 the adapter wrote
C15_Witness ==
    /\ simpc = "run"
    /\ writes >= 1
    /\ CurType = "VAV"
    /\ "damper" \in done[dev]
    /\ Objects.damper \in {Clamp(2000 + Uniform(-500, 500, u), 0, 10000) : u \in Raw}

\* C16: the simulation only moves forward through Idle, Running, Stopping,
\* Stopped: it leaves Idle only when main creates the task, leaves Running only
\* when its cancellation is requested, reaches Stopped only from Stopping with
\* the task ended, and never goes back.
C16_LifecycleForward ==
    [][\/ Lifecycle' = Lifecycle
       \/ /\ Lifecycle = "Idle"
          /\ Lifecycle' = "Running"
          /\ mainpc = "create" /\ mainpc' = "wait"
       \/ /\ Lifecycle = "Running"
          /\ Lifecycle' = "Stopping"
          /\ ~cancelReq /\ cancelReq'
       \/ /\ Lifecycle = "Stopping"
          /\ Lifecycle' = "Stopped"
          /\ TaskSettled']_vars

\* a run that went through the four states, with a tick made
C16_Witness ==
    /\ Lifecycle = "Stopped"
    /\ mainpc = "exited"
    /\ cancelReq
    /\ ticks >= 1

\* C17: an interrupt that arrives when the simulation is already Stopping or
\* Stopped changes neither where the simulation stands nor the running flag nor
\* any point, no point changes after it, and the process still ends with the
\* simulation Stopped, as after a single interrupt.
C17_SecondStopChangesNothing ==
    /\ [][(sigint' = "again" /\ sigint # "again") =>
             /\ Lifecycle' = Lifecycle
             /\ running' = running
             /\ devices' = devices]_vars
    /\ [][sigint = "again" => devices' = devices /\ Lifecycle' # "Running"]_vars
    /\ [](mainpc = "exited" => Lifecycle = "Stopped")

\* the second interrupt arrived while the task was ending, and the run is over
C17_Witness ==
    /\ sigint = "again"
    /\ prog = "simple"
    /\ mainpc = "exited"
    /\ ticks >= 1

Abs(x) == IF x < 0 THEN -x ELSE x

\* C18: with return_temp held, hence target = 50 + 5*(return_temp - 72), a tick
\* of the tracking brings fan_speed no farther from target than it was and never
\* across it: from at or above target, target <= new <= old; from at or below,
\* old <= new <= target.
C18_TrackingMonotone ==
    [][(cell.rule = "track" /\ cell'.applied = cell.applied + 1) =>
          LET target == TargetSpeed(cell.driver)
              old == cell.current
              new == cell'.current
          IN  /\ Abs(target - new) <= Abs(target - old)
              /\ old >= target => (target <= new /\ new <= old)
              /\ old <= target => (old <= new /\ new <= target)]_vars

\* two ticks of the tracking that moved fan_speed and left it short of target
C18_Witness ==
    /\ cell.rule = "track"
    /\ cell.applied >= 2
    /\ cell.current # cell.start
    /\ cell.current # TargetSpeed(cell.driver)

\* C19: a walk with step range 0 leaves a value that is within its bounds
\* unchanged, after any number of ticks.
C19_ZeroStepWalkIdle ==
    (cell.rule = "walk" /\ cell.range = 0) => cell.current = cell.start

\* two ticks of a walk with step range 0, from a value inside the bounds
C19_Witness ==
    /\ cell.rule = "walk"
    /\ cell.range = 0
    /\ cell.applied >= 2
    /\ cell.lo < cell.start /\ cell.start < cell.hi

\* shutdown is declared done: main has returned from the handler that cancels
\* and awaits the task, or asyncio.run has returned
ShutdownDone ==
    \/ mainpc = "exited"
    \/ mainpc = "done" /\ Delivered = Caught

\* C20: once shutdown is declared done the simulation task has ended, and from
\* then on no point changes and no tick starts or completes.
C20_NoTickAfterShutdown ==
    /\ [](ShutdownDone => simpc \notin {"sleep", "run"})
    /\ [][ShutdownDone =>
            /\ devices' = devices
            /\ ticks' = ticks
            /\ simpc' = simpc]_vars

\* main has returned from its handler after ticks were made, and the run goes on
\* to its end
C20_Witness ==
    /\ ShutdownDone
    /\ mainpc = "exited"
    /\ prog = "simple"
    /\ ticks >= 1

\* C21: while the simulation is Running and ticks remain to explore, the tick in
\* progress or to come is completed, with every registered device evaluated in
\* full, unless the simulation leaves Running: the task only waits in its sleep,
\* the body ends, and no read or write of the adapter holds it back.
C21_EveryDeviceTicked ==
    \A k \in 0..MaxReplay :
        (ticks = k /\ Lifecycle = "Running" /\ TickAllowed)
            ~> \/ Lifecycle # "Running"
               \/ /\ ticks > k
                  /\ \A d \in DOMAIN devices : done[d] = RolesOf(devices[d].type)

\* ticks completed after a read and a write of the adapter
C21_Witness ==
    /\ Lifecycle = "Running"
    /\ ticks >= 2
    /\ writes >= 1
    /\ obs # "none"
    /\ \E d \in DOMAIN devices : done[d] # {}

\* C22: a step that evaluates the occupancy of a VAV takes exactly one draw of
\* the toggle (followed at most by the draw of the next sleep); the occupancy is
\* flipped between active and inactive when that draw is below 0.1 and is kept
\* otherwise; no other step changes it, it holds only active or inactive, and
\* flipping it twice gives it back.
C22_OccupancyToggle ==
    [][\A d \in DOMAIN devices :
          (d \in DOMAIN devices' /\ "occupancy" \in DOMAIN devices[d].objects) =>
              LET before == devices[d].objects.occupancy
                  after == devices'[d].objects.occupancy
                  flipped == IF before = "active" THEN "inactive" ELSE "active"
                  drawn == Len(log') - Len(log)
              IN  /\ after \in {"active", "inactive"}
                  /\ Toggle(Toggle(after)) = after
                  /\ IF "occupancy" \in done'[d] /\ "occupancy" \notin done[d]
                     THEN /\ drawn \in {1, 2}
                          /\ log'[Len(log) + 1] \in Raw
                          /\ drawn = 2 => log'[Len(log) + 2] \in SleepRaw
                          /\ after = IF log'[Len(log) + 1] < 10 THEN flipped ELSE before
                     ELSE after = before]_vars

\* an occupancy that was flipped by a tick and kept by a later one
C22_Witness ==
    /\ keep
    /\ ticks >= 2
    /\ \E d \in DOMAIN devices :
          /\ devices[d].type = "VAV"
          /\ "occupancy" \in done[d]
          /\ devices[d].objects.occupancy # Device(devices[d].instance, "VAV").objects.occupancy
          /\ log[Len(log)] >= 10 \/ (Len(log) > 1 /\ log[Len(log) - 1] >= 10)

\* the points MultiDeviceApplication.create_device makes for a device of this
\* type, holding the initial values o where o has the point
MultiStart(type, o) ==
    IF type = "AHU"
    THEN [supply_temp |-> o.supply_temp, return_temp |-> o.return_temp,
          fan_status |-> "active", fan_speed |-> o.fan_speed]
    ELSE o

RECURSIVE MultiReplayed(_, _)
\* the points of device d after t rounds of the loop over all the devices of
\* MultiDeviceApplication.simulate_values, from the initial values of d and with
\* the draws the stream holds for d
MultiReplayed(d, t) ==
    IF t = 0 THEN MultiStart(devices[d].type, ObjectsFor(devices[d].type, devices[d].instance))
    ELSE CASE devices[d].type = "VAV" -> ReplayVav(MultiReplayed(d, t - 1), DrawsAt(d, t))
           [] devices[d].type = "AHU" -> ReplayAhu(MultiReplayed(d, t - 1), DrawsAt(d, t))
           [] OTHER -> MultiReplayed(d, t - 1)

\* C23: after every tick, each point that the loop over all the devices commits
\* for a device is a point of the device run by its own task in simple_device,
\* and holds the value that loop commits from the same initial values and the
\* same draws, for VAV and for AHU.
C23_ShapesAgree ==
    (prog = "simple" /\ keep /\ simpc # "run") =>
        \A d \in DOMAIN devices :
            \A role \in DOMAIN MultiReplayed(d, ticks) :
                /\ role \in DOMAIN devices[d].objects
                /\ devices[d].objects[role] = MultiReplayed(d, ticks)[role]

\* C24: the fan_status of an AHU is active in every state: it is created active
\* and every tick derives it from a fan speed clamped to [30, 100], also when
\* the adapter wrote a fan speed at or below the threshold of 20 in between.
C24_FanStatusActive ==
    \A d \in AhuDevices :
        "fan_status" \in DOMAIN devices[d].objects =>
            devices[d].objects.fan_status = "active"

\* a tick that derived the status after the adapter had written a fan speed of 20
C24_Witness ==
    /\ writes >= 1
    /\ \E d \in AhuDevices :
          /\ "fan_status" \in done[d]
          /\ devices[d].objects.fan_speed = 3000
          /\ devices[d].objects.fan_status = "active"

C26_TickRestoresBounds ==
    [][\A d \in DOMAIN devices :
          d \in DOMAIN devices' =>
              /\ ("damper" \in done'[d] /\ "damper" \notin done[d]) =>
                    /\ devices'[d].objects.damper >= 0
                    /\ devices'[d].objects.damper <= 10000
              /\ ("fan_speed" \in done'[d] /\ "fan_speed" \notin done[d]) =>
                    /\ devices'[d].objects.fan_speed >= 3000
                    /\ devices'[d].objects.fan_speed <= 10000]_vars

\* a damper written at 120 by the adapter and brought back to 100 by the tick
C26_Witness ==
    /\ writes >= 1
    /\ \E d \in VavDevices :
          /\ "damper" \in done[d]
          /\ devices[d].objects.damper = 10000

\* the points o of device d after its update in tick t, with the draws the
\* stream holds for d in that tick
UpdateOf(d, o, t) ==
    CASE devices[d].type = "VAV" -> ReplayVav(o, DrawsAt(d, t))
      [] devices[d].type = "AHU" -> ReplayAhu(o, DrawsAt(d, t))
      [] OTHER -> o

RECURSIVE VisitFrom(_, _, _)
\* for device in order: the points of all the devices after the updates of tick
\* t are applied in this order
VisitFrom(objs, order, t) ==
    IF order = <<>> THEN objs
    ELSE VisitFrom([objs EXCEPT ![Head(order)] = UpdateOf(Head(order), @, t)],
                   Tail(order), t)

\* self.devices visited from the last to the first
Backwards == [i \in 1..Len(devices) |-> Len(devices) + 1 - i]

RECURSIVE VisitedBackwards(_)
\* the points of all the devices after t ticks that visit them backwards
VisitedBackwards(t) ==
    IF t = 0
    THEN [d \in DOMAIN devices |-> ObjectsFor(devices[d].type, devices[d].instance)]
    ELSE VisitFrom(VisitedBackwards(t - 1), Backwards, t)

\* C27: while a tick updates a device, no step changes a point of another
\* device, and after every tick the points of all the devices are the ones
\* that ticks visiting the devices in the opposite order give, each device
\* keeping its own draws.
C27_UpdatesIndependent ==
    /\ [][simpc = "run" =>
              \A e \in DOMAIN devices : e # dev => devices'[e] = devices[e]]_vars
    /\ [](simpc # "run" =>
              \A d \in DOMAIN devices : devices[d].objects = VisitedBackwards(ticks)[d])

\* two devices whose points were both changed by a tick
C27_Witness ==
    /\ keep
    /\ simpc = "sleep"
    /\ ticks >= 1
    /\ Len(devices) = 2
    /\ \A d \in DOMAIN devices :
          devices[d].objects # ObjectsFor(devices[d].type, devices[d].instance)

====
